---- MODULE Spec2Model ----
(***************************************************************************)
(* Struct.js: a record layout compiled from field descriptors and typed     *)
(* get/set access into an ArrayBuffer through a DataView.                   *)
(*                                                                          *)
(* Representation of JavaScript values:                                     *)
(*   - a value is a record [t, n, s]: t is "undef", "bool", "num" or "str"; *)
(*   - a Number is held in n as its base-256 digits, least significant      *)
(*     first, five of them (TLC's integers are 32 bits wide and a uint32    *)
(*     does not fit; the fifth digit holds what lies above 2^32);           *)
(*   - a String is held in s as the sequence of its char codes;             *)
(*   - an ArrayBuffer is a function from 0..byteLength-1 to bytes;          *)
(*   - a descriptor string is held as what rDef captures from it: the type  *)
(*     word, the name word and the decimal digits between the brackets      *)
(*     (no digits when there is no bracket suffix).                         *)
(***************************************************************************)
EXTENDS Integers, Sequences, FiniteSets

VARIABLES
    args,          \* the constructor's arguments: defs, buffer, isLittleEndian
    pc,            \* "new" before the constructor ran, "ready" after, "failed" when it threw
    defMap,        \* this._defMap (own properties only)
    totalBytes,    \* the value _parseDefs returned
    buffer,        \* the bytes of this._buffer
    LITTE_ENDIAN,  \* this.LITTE_ENDIAN
    last           \* the last call made on the instance, and what it returned or threw

vars == <<args, pc, defMap, totalBytes, buffer, LITTE_ENDIAN, last>>

(***************************************************************************)
(* Bounds of the inputs.                                                    *)
(***************************************************************************)
MaxDefs == 2        \* descriptors per layout
MaxStrLen == 3      \* characters of a string passed to set
MaxBufLen == 4      \* bytes of a buffer passed to the constructor
MaxCountDigit == 3  \* the largest decimal digit used in a bracketed count

(***************************************************************************)
(* JavaScript values.                                                       *)
(***************************************************************************)
Zero5 == <<0, 0, 0, 0, 0>>
Undefined == [t |-> "undef", n |-> Zero5, s |-> <<>>]
Bool(b) == [t |-> "bool", n |-> IF b THEN <<1, 0, 0, 0, 0>> ELSE Zero5, s |-> <<>>]
Num(d) == [t |-> "num", n |-> d, s |-> <<>>]
Str(c) == [t |-> "str", n |-> Zero5, s |-> c]

\* ToBoolean, as `||` and `!` apply it
ToBoolean(v) ==
    CASE v.t = "undef" -> FALSE
      [] v.t = "bool" -> v.n[1] = 1
      [] v.t = "num" -> v.n # Zero5
      [] OTHER -> v.s # <<>>

\* ToNumber of a set() argument, as the DataView setters apply it: a Number is
\* itself; the strings of this model hold no digit and convert to NaN, the
\* empty string to 0, and a DataView stores both as 0.
ToNumber(v) == IF v.t = "num" THEN v.n ELSE Zero5

Min(a, b) == IF a < b THEN a ELSE b

(***************************************************************************)
(* ArrayBuffer and DataView.                                                *)
(***************************************************************************)
byteLength(buf) == Cardinality(DOMAIN buf)

\* new ArrayBuffer(n): n zero bytes
NewArrayBuffer(n) == [i \in 0 .. n - 1 |-> 0]

\* DataView.prototype.setUintN: RangeError when the w bytes do not lie in the
\* buffer; otherwise the w low digits of the number, most significant first
\* unless littleEndian.
DataViewSet(buf, offset, w, d, littleEndian) ==
    IF offset + w > byteLength(buf)
    THEN [status |-> "RangeError", buf |-> buf]
    ELSE [status |-> "ok",
          buf |-> [i \in DOMAIN buf |->
                     IF i >= offset /\ i < offset + w
                     THEN IF littleEndian THEN d[i - offset + 1] ELSE d[w - (i - offset)]
                     ELSE buf[i]]]

\* DataView.prototype.getUintN
DataViewGet(buf, offset, w, littleEndian) ==
    IF offset + w > byteLength(buf)
    THEN [status |-> "RangeError", value |-> Undefined]
    ELSE [status |-> "ok",
          value |-> Num([k \in 1 .. 5 |->
                           IF k > w THEN 0
                           ELSE IF littleEndian THEN buf[offset + k - 1]
                                ELSE buf[offset + w - k]])]

(***************************************************************************)
(* Conversions between small integers (byte values, char codes, counts)     *)
(* and Numbers.                                                             *)
(***************************************************************************)
RECURSIVE DigitOf(_, _)
DigitOf(n, k) == IF k = 1 THEN n % 256 ELSE DigitOf(n \div 256, k - 1)

FromInt(n) == [k \in 1 .. 5 |-> DigitOf(n, k)]

(***************************************************************************)
(* Struct._typeMap                                                          *)
(***************************************************************************)
TypeNames == {"uint8", "uint16", "uint32", "cstring"}

byteSize(type) ==
    CASE type = "uint8" -> 1
      [] type = "uint16" -> 2
      [] type = "uint32" -> 4
      [] type = "cstring" -> 1

Reads(offset, w) == offset .. offset + w - 1

\* uint8 setter that stores two bytes (setUint16 for setUint8)
uint8_setter_wide(buf, le, value, offset) ==
    DataViewSet(buf, offset, 2, ToNumber(value), ToBoolean(le))

uint8_setter(buf, le, value, offset) ==
    DataViewSet(buf, offset, 1, ToNumber(value), FALSE)

uint8_getter(buf, le, offset) ==
    LET r == DataViewGet(buf, offset, 1, FALSE)
    IN  [status |-> r.status, value |-> r.value, reads |-> Reads(offset, 1)]

uint16_setter(buf, le, value, offset) ==
    DataViewSet(buf, offset, 2, ToNumber(value), ToBoolean(le))

\* uint16 getter that does not pass this.LITTE_ENDIAN
uint16_getter_bigEndian(buf, le, offset) ==
    LET r == DataViewGet(buf, offset, 2, FALSE)
    IN  [status |-> r.status, value |-> r.value, reads |-> Reads(offset, 2)]

uint16_getter(buf, le, offset) ==
    LET r == DataViewGet(buf, offset, 2, ToBoolean(le))
    IN  [status |-> r.status, value |-> r.value, reads |-> Reads(offset, 2)]

\* uint32 setter that does not pass this.LITTE_ENDIAN
uint32_setter_bigEndian(buf, le, value, offset) ==
    DataViewSet(buf, offset, 4, ToNumber(value), FALSE)

uint32_setter(buf, le, value, offset) ==
    DataViewSet(buf, offset, 4, ToNumber(value), ToBoolean(le))

uint32_getter(buf, le, offset) ==
    LET r == DataViewGet(buf, offset, 4, ToBoolean(le))
    IN  [status |-> r.status, value |-> r.value, reads |-> Reads(offset, 4)]

\* the for loop of the cstring setter from index i on, then the terminator;
\* a RangeError leaves the bytes written so far
RECURSIVE cstring_setter_loop(_, _, _, _, _)
cstring_setter_loop(buf, s, offset, i, len) ==
    IF i < len
    THEN LET r == DataViewSet(buf, offset, 1, FromInt(s[i + 1]), FALSE)
         IN  IF r.status = "ok"
             THEN cstring_setter_loop(r.buf, s, offset + 1, i + 1, len)
             ELSE r
    ELSE DataViewSet(buf, offset, 1, Zero5, FALSE)

\* Math.min(value.length, length): no room kept for the terminator
cstring_len_full(value, length) ==
    IF value.t = "str" THEN Min(Len(value.s), length) ELSE 0

\* value.length: no truncation
cstring_len_untruncated(value, length) ==
    IF value.t = "str" THEN Len(value.s) ELSE 0

\* Math.min(value.length, length - 1): the length of a Number is undefined and
\* the minimum NaN, so that the loop (i < NaN) does not run
cstring_len(value, length) ==
    IF value.t = "str" THEN Min(Len(value.s), length - 1) ELSE 0

cstring_setter(buf, value, offset, length) ==
    cstring_setter_loop(buf, value.s, offset, 0, cstring_len(value, length))

\* the for loop of the cstring getter from index i on, str being what was
\* read so far and reads the indices getUint8 was called with
RECURSIVE cstring_getter_loop(_, _, _, _, _, _)
cstring_getter_loop(buf, offset, length, i, str, reads) ==
    IF i < length
    THEN LET r == DataViewGet(buf, offset, 1, FALSE)
         IN  IF r.status # "ok"
             THEN [status |-> r.status, value |-> Undefined, reads |-> reads \cup {offset}]
             ELSE IF r.value.n = Zero5
                  THEN [status |-> "ok", value |-> Str(str), reads |-> reads \cup {offset}]
                  ELSE cstring_getter_loop(buf, offset + 1, length, i + 1,
                                           Append(str, r.value.n[1]), reads \cup {offset})
    ELSE [status |-> "ok", value |-> Str(str), reads |-> reads]

\* cstring getter that reads up to the first zero byte whatever the capacity
cstring_getter_unbounded(buf, offset, length) ==
    cstring_getter_loop(buf, offset, byteLength(buf) - offset, 0, <<>>, {})

cstring_getter(buf, offset, length) ==
    cstring_getter_loop(buf, offset, length, 0, <<>>, {})

\* setter.call(this, value, def.offset, def.length) of the type's entry
typeMap_setter(type, buf, le, value, offset, length) ==
    CASE type = "uint8" -> uint8_setter(buf, le, value, offset)
      [] type = "uint16" -> uint16_setter(buf, le, value, offset)
      [] type = "uint32" -> uint32_setter(buf, le, value, offset)
      [] type = "cstring" -> cstring_setter(buf, value, offset, length)

\* getter.call(this, def.offset, def.length) of the type's entry
typeMap_getter(type, buf, le, offset, length) ==
    CASE type = "uint8" -> uint8_getter(buf, le, offset)
      [] type = "uint16" -> uint16_getter(buf, le, offset)
      [] type = "uint32" -> uint32_getter(buf, le, offset)
      [] type = "cstring" -> cstring_getter(buf, offset, length)

(***************************************************************************)
(* The constructor and _parseDefs.                                          *)
(***************************************************************************)
\* rDef.test(def): the type word is one of the four, the name is a word and
\* the bracket suffix, when there is one, holds decimal digits. Every name of
\* this model is a word and every count a digit sequence.
rDef_test(def) == def.type \in TypeNames

\* parseInt(RegExp.$3, 10): NaN for the empty capture, else the decimal value
RECURSIVE parseInt(_)
parseInt(c) ==
    IF c = <<>> THEN [nan |-> TRUE, n |-> 0]
    ELSE IF Len(c) = 1 THEN [nan |-> FALSE, n |-> c[1]]
    ELSE [nan |-> FALSE, n |-> 10 * parseInt(SubSeq(c, 1, Len(c) - 1)).n + c[Len(c)]]

\* parseInt(RegExp.$3, 10) || 1: NaN and 0 are falsy
parseLength(c) ==
    LET r == parseInt(c) IN IF r.nan \/ r.n = 0 THEN 1 ELSE r.n

\* defs.forEach(...) from the i-th descriptor on
RECURSIVE _parseDefs_loop(_, _, _, _)
_parseDefs_loop(defs, i, total, map) ==
    IF i > Len(defs)
    THEN [status |-> "ok", totalBytes |-> total, defMap |-> map]
    ELSE IF rDef_test(defs[i])
         THEN LET type == defs[i].type
                  name == defs[i].name
                  offset == total
                  length == parseLength(defs[i].count)
              IN  _parseDefs_loop(defs, i + 1, total + length * byteSize(type),
                                  [n \in DOMAIN map \cup {name} |->
                                     IF n = name
                                     THEN [type |-> type, offset |-> offset, length |-> length]
                                     ELSE map[n]])
         ELSE [status |-> "Error", totalBytes |-> total, defMap |-> map]

_parseDefs(defs) == _parseDefs_loop(defs, 1, 0, <<>>)

\* this._buffer = new ArrayBuffer(totalBytes), the buffer passed in ignored
Struct_buffer_allocated(bufferArg, total) == NewArrayBuffer(total)

\* this._buffer = buffer || new ArrayBuffer(totalBytes): an ArrayBuffer is an
\* object and truthy whatever its length
Struct_buffer(bufferArg, total) ==
    IF bufferArg.given THEN bufferArg.bytes ELSE NewArrayBuffer(total)

(***************************************************************************)
(* The methods.                                                             *)
(***************************************************************************)
\* the property names every object inherits from Object.prototype (the one
\* the model asks for)
ObjectPrototypeKeys == {"toString"}

\* what a def that is not a layout entry looks like to set and get: the
\* inherited function has no type property
NoDef == [type |-> "undefined", offset |-> 0, length |-> 0]

\* var def = this._defMap[name]; if (! def) throw new Error(name + '...')
_getDefByName(map, name) ==
    IF name \in DOMAIN map
    THEN [status |-> "ok", def |-> map[name], named |-> ""]
    ELSE IF name \in ObjectPrototypeKeys
         THEN [status |-> "ok", def |-> NoDef, named |-> ""]
         ELSE [status |-> "Error", def |-> NoDef, named |-> name]

\* Struct._typeMap[def.type].setter / .getter throws a TypeError when
\* Struct._typeMap has no such key
set(buf, map, le, name, value) ==
    LET d == _getDefByName(map, name)
    IN  IF d.status # "ok"
        THEN [status |-> d.status, buf |-> buf, named |-> d.named]
        ELSE IF d.def.type \notin TypeNames
             THEN [status |-> "TypeError", buf |-> buf, named |-> ""]
             ELSE LET r == typeMap_setter(d.def.type, buf, le, value,
                                          d.def.offset, d.def.length)
                  IN  [status |-> r.status, buf |-> r.buf, named |-> ""]

get(buf, map, le, name) ==
    LET d == _getDefByName(map, name)
    IN  IF d.status # "ok"
        THEN [status |-> d.status, value |-> Undefined, reads |-> {}, named |-> d.named]
        ELSE IF d.def.type \notin TypeNames
             THEN [status |-> "TypeError", value |-> Undefined, reads |-> {}, named |-> ""]
             ELSE LET r == typeMap_getter(d.def.type, buf, le, d.def.offset, d.def.length)
                  IN  [status |-> r.status, value |-> r.value, reads |-> r.reads,
                       named |-> ""]

getLength(buf) == byteLength(buf)

\* the calls callback(v, i) that eachByte makes, in order
eachByte(buf) == [k \in 1 .. getLength(buf) |-> [v |-> buf[k - 1], i |-> k - 1]]

\* while (len--) str = '0' + str   (48 is the char code of '0')
RECURSIVE _padZero(_, _)
_padZero(str, count) ==
    IF count - Len(str) = 0 THEN str ELSE _padZero(<<48>> \o str, count)

\* the char of a digit: '0'..'9' are 48..57 and 'a'..'f' are 97..102
DigitChar(d) == IF d < 10 THEN 48 + d ELSE 87 + d

\* Number.prototype.toString(radix) of a byte
RECURSIVE NumberToString(_, _)
NumberToString(v, radix) ==
    IF v < radix THEN <<DigitChar(v)>>
    ELSE Append(NumberToString(v \div radix, radix), DigitChar(v % radix))

\* Struct._toStringMap.hex / .binary: str += ... over eachByte, from call k on
RECURSIVE toStringMap_loop(_, _, _, _)
toStringMap_loop(calls, k, radix, width) ==
    IF k > Len(calls) THEN <<>>
    ELSE _padZero(NumberToString(calls[k].v, radix), width)
         \o toStringMap_loop(calls, k + 1, radix, width)

toStringMap_hex(buf) == toStringMap_loop(eachByte(buf), 1, 16, 2)

toStringMap_binary(buf) == toStringMap_loop(eachByte(buf), 1, 2, 8)

\* the keys of the render modes, as char codes
KeyHex == <<104, 101, 120>>
KeyBinary == <<98, 105, 110, 97, 114, 121>>
KeyOctal == <<111, 99, 116, 97, 108>>
KeyToString == <<116, 111, 83, 116, 114, 105, 110, 103>>
\* "[object Object]", what Object.prototype.toString returns for the instance
ObjectTag == <<91, 111, 98, 106, 101, 99, 116, 32, 79, 98, 106, 101, 99, 116, 93>>

\* type = type || 'hex'; return Struct._toStringMap[type].call(this): the
\* table is an object literal, so that a key of Object.prototype finds the
\* inherited function, and any other key undefined (whose call throws)
toString(buf, type) ==
    LET key == IF ToBoolean(type) THEN type.s ELSE KeyHex
    IN  CASE key = KeyHex -> [status |-> "ok", value |-> Str(toStringMap_hex(buf))]
          [] key = KeyBinary -> [status |-> "ok", value |-> Str(toStringMap_binary(buf))]
          [] key = KeyToString -> [status |-> "ok", value |-> Str(ObjectTag)]
          [] OTHER -> [status |-> "TypeError", value |-> Undefined]

(***************************************************************************)
(* The inputs the model draws from.                                         *)
(***************************************************************************)
Names == {"a", "b"}

LayoutCounts ==
    {<<>>} \cup {<<d>> : d \in 0 .. MaxCountDigit} \cup {<<d, e>> : d, e \in 0 .. 1}

\* the descriptors of the records that are read and written: a scalar, a
\* cstring of capacity 1 (no bracket suffix) or of capacity MaxCountDigit
AccessDescs(names) ==
    [type : TypeNames, name : names, count : {<<>>}]
    \cup [type : {"cstring"}, name : names, count : {<<MaxCountDigit>>}]

\* their layouts: no field, a field "a", or a field "a" followed by a field "b"
AccessLayouts ==
    {<<>>}
    \cup {<<d>> : d \in AccessDescs({"a"})}
    \cup {<<d, e>> : d \in AccessDescs({"a"}), e \in AccessDescs({"b"})}

LayoutDescs == [type : TypeNames \cup {"int24"}, name : Names, count : LayoutCounts]

SeqsUpTo(S, n) == UNION {[1 .. k -> S] : k \in 0 .. n}

\* the descriptors of the example in the header comment of Struct.js
DocExample ==
    << [type |-> "uint16", name |-> "packetId", count |-> <<>>],
       [type |-> "uint32", name |-> "statusCode", count |-> <<>>],
       [type |-> "cstring", name |-> "method", count |-> <<1, 1>>],
       [type |-> "uint8", name |-> "bodyType", count |-> <<>>],
       [type |-> "uint32", name |-> "bodyLength", count |-> <<>>] >>

\* a buffer passed to the constructor: none, or one of n bytes, all 'A'
BufferArgs ==
    {[given |-> FALSE, bytes |-> <<>>]}
    \cup {[given |-> TRUE, bytes |-> [i \in 0 .. n - 1 |-> 65]] : n \in 0 .. MaxBufLen}

EndianArgs == {Undefined, Bool(FALSE), Bool(TRUE)}

\* 0, 0xff, 0x01020304 and 0xffffffff
Numbers ==
    {Zero5, <<255, 0, 0, 0, 0>>, <<4, 3, 2, 1, 0>>, <<255, 255, 255, 255, 0>>}

\* the strings passed to set: the prefixes of "BCDE..." (66, 67, ...), whose
\* characters all differ
Strings == {[i \in 1 .. k |-> 65 + i] : k \in 0 .. MaxStrLen}

SetValues == {Num(d) : d \in Numbers} \cup {Str(c) : c \in Strings}

QueryNames == Names \cup ObjectPrototypeKeys

Modes == {Undefined, Str(<<>>), Str(KeyHex), Str(KeyBinary), Str(KeyOctal), Str(KeyToString)}

(***************************************************************************)
(* The state machine.                                                       *)
(***************************************************************************)
NoCall ==
    [op |-> "none", name |-> "", value |-> Undefined, status |-> "ok",
     result |-> Undefined, named |-> "", reads |-> {}, calls |-> <<>>]

InitWith(layouts) ==
    /\ args \in [defs : layouts, buffer : BufferArgs, isLittleEndian : EndianArgs]
    /\ pc = "new"
    /\ defMap = <<>>
    /\ totalBytes = 0
    /\ buffer = <<>>
    /\ LITTE_ENDIAN = Undefined
    /\ last = NoCall

Init == InitWith(AccessLayouts)

InitLayout ==
    /\ InitWith(SeqsUpTo(LayoutDescs, MaxDefs) \cup {DocExample})
    /\ ~ args.buffer.given
    /\ args.isLittleEndian = Undefined

\* new Struct(defs, buffer, isLittleEndian)
New ==
    /\ pc = "new"
    /\ LET r == _parseDefs(args.defs)
       IN  IF r.status = "ok"
           THEN /\ pc' = "ready"
                /\ defMap' = r.defMap
                /\ totalBytes' = r.totalBytes
                /\ buffer' = Struct_buffer(args.buffer, r.totalBytes)
                /\ LITTE_ENDIAN' = args.isLittleEndian
                /\ last' = [NoCall EXCEPT !.op = "new"]
           ELSE /\ pc' = "failed"
                /\ last' = [NoCall EXCEPT !.op = "new", !.status = r.status]
                /\ UNCHANGED <<defMap, totalBytes, buffer, LITTE_ENDIAN>>
    /\ UNCHANGED args

\* s.set(name, value)
Set(name, value) ==
    /\ pc = "ready"
    /\ LET r == set(buffer, defMap, LITTE_ENDIAN, name, value)
       IN  /\ buffer' = r.buf
           /\ last' = [NoCall EXCEPT !.op = "set", !.name = name, !.value = value,
                                     !.status = r.status, !.named = r.named]
    /\ UNCHANGED <<args, pc, defMap, totalBytes, LITTE_ENDIAN>>

\* s.get(name)
Get(name) ==
    /\ pc = "ready"
    /\ LET r == get(buffer, defMap, LITTE_ENDIAN, name)
       IN  last' = [NoCall EXCEPT !.op = "get", !.name = name, !.status = r.status,
                                  !.result = r.value, !.named = r.named,
                                  !.reads = r.reads]
    /\ UNCHANGED <<args, pc, defMap, totalBytes, buffer, LITTE_ENDIAN>>

\* s.getLength()
GetLength ==
    /\ pc = "ready"
    /\ last' = [NoCall EXCEPT !.op = "getLength",
                              !.result = Num(FromInt(getLength(buffer)))]
    /\ UNCHANGED <<args, pc, defMap, totalBytes, buffer, LITTE_ENDIAN>>

\* s.toString(type)
ToString(type) ==
    /\ pc = "ready"
    /\ LET r == toString(buffer, type)
       IN  last' = [NoCall EXCEPT !.op = "toString", !.value = type,
                                  !.status = r.status, !.result = r.value]
    /\ UNCHANGED <<args, pc, defMap, totalBytes, buffer, LITTE_ENDIAN>>

\* s.eachByte(callback)
EachByte ==
    /\ pc = "ready"
    /\ last' = [NoCall EXCEPT !.op = "eachByte", !.calls = eachByte(buffer)]
    /\ UNCHANGED <<args, pc, defMap, totalBytes, buffer, LITTE_ENDIAN>>

Next ==
    \/ New
    \/ \E name \in QueryNames, value \in SetValues : Set(name, value)
    \/ \E name \in QueryNames : Get(name)
    \/ GetLength
    \/ \E type \in Modes : ToString(type)
    \/ EachByte

Spec == Init /\ [][Next]_vars

\* the constructor alone, over a wider set of descriptors
NextLayout == New

SpecLayout == InitLayout /\ [][NextLayout]_vars

(***************************************************************************)
(* Vocabulary of the properties.                                            *)
(***************************************************************************)
IntTypes == {"uint8", "uint16", "uint32"}

\* the Number d is representable in w bytes
InRange(d, w) == \A k \in w + 1 .. 5 : d[k] = 0

\* the byte range of a layout entry
FieldRange(def) == def.offset .. def.offset + def.length * byteSize(def.type) - 1

\* the backing buffer holds the whole byte range of the entry
FieldInBuffer(def) == FieldRange(def) \subseteq DOMAIN buffer

\* the last call was set (get) on a field of the layout
LastSetOn(types) ==
    /\ last.op = "set"
    /\ last.name \in DOMAIN defMap
    /\ defMap[last.name].type \in types

LastGetOn(types) ==
    /\ last.op = "get"
    /\ last.name \in DOMAIN defMap
    /\ defMap[last.name].type \in types

\* C1: integer round trip. After set(name, v) on a uint8, uint16 or uint32
\* field that lies in the buffer, with 0 <= v < 2^w, whatever the buffer held
\* and whatever the endianness flag, set has returned and get(name) returns v.
C1_IntegerRoundTrip ==
    (/\ LastSetOn(IntTypes)
     /\ last.value.t = "num"
     /\ InRange(last.value.n, byteSize(defMap[last.name].type))
     /\ FieldInBuffer(defMap[last.name]))
    => /\ last.status = "ok"
       /\ LET g == get(buffer, defMap, LITTE_ENDIAN, last.name)
          IN  g.status = "ok" /\ g.value = last.value

\* a little-endian uint16 field of a caller's buffer (which held 'A' bytes)
\* was set to 0xff
C1_Witness ==
    /\ LastSetOn({"uint16"})
    /\ last.status = "ok"
    /\ args.buffer.given
    /\ args.isLittleEndian = Bool(TRUE)
    /\ last.value = Num(<<255, 0, 0, 0, 0>>)

\* the first k characters of s
Prefix(s, k) == SubSeq(s, 1, k)

\* C2: cstring set then get. After set(name, s) on a cstring field of capacity
\* c that lies in the buffer, s a string of char codes in 1..255, whatever the
\* field held, get(name) returns the first min(|s|, c-1) characters of s and
\* the byte at offset + min(|s|, c-1) is 0.
C2_CStringSetGet ==
    (/\ LastSetOn({"cstring"})
     /\ last.value.t = "str"
     /\ \A k \in 1 .. Len(last.value.s) : last.value.s[k] \in 1 .. 255
     /\ FieldInBuffer(defMap[last.name]))
    => LET def == defMap[last.name]
           m == Min(Len(last.value.s), def.length - 1)
           g == get(buffer, defMap, LITTE_ENDIAN, last.name)
       IN  /\ last.status = "ok"
           /\ g.status = "ok"
           /\ g.value = Str(Prefix(last.value.s, m))
           /\ buffer[def.offset + m] = 0

\* a string longer than capacity - 1 was set and truncated to a non-empty one
C2_Witness ==
    /\ LastSetOn({"cstring"})
    /\ last.status = "ok"
    /\ last.value.t = "str"
    /\ defMap[last.name].length > 1
    /\ Len(last.value.s) > defMap[last.name].length - 1

\* C3: null terminator. In a record constructed without a buffer, after any
\* calls of set, every cstring field holds a zero byte in its own byte range.
C3_NullTerminator ==
    (pc = "ready" /\ ~ args.buffer.given)
    => \A name \in DOMAIN defMap :
          defMap[name].type = "cstring"
          => \E i \in FieldRange(defMap[name]) : i \in DOMAIN buffer /\ buffer[i] = 0

\* a cstring field of a fresh buffer was filled up to its terminator
C3_Witness ==
    /\ ~ args.buffer.given
    /\ LastSetOn({"cstring"})
    /\ last.status = "ok"
    /\ defMap[last.name].length > 1
    /\ \A i \in FieldRange(defMap[last.name]) :
          buffer[i] = 0 <=> i = defMap[last.name].offset + defMap[last.name].length - 1

\* C4: byte order. After set(name, v) on a uint16 or uint32 field of w bytes at
\* offset o that lies in the buffer, 0 <= v < 2^w, the i-th byte eachByte
\* visits from o on is the i-th most significant byte of v when the flag given
\* to the constructor is false or omitted, the i-th least significant one when
\* it is true.
C4_ByteOrder ==
    (/\ LastSetOn({"uint16", "uint32"})
     /\ last.value.t = "num"
     /\ InRange(last.value.n, byteSize(defMap[last.name].type))
     /\ FieldInBuffer(defMap[last.name]))
    => LET def == defMap[last.name]
           w == byteSize(def.type)
           calls == eachByte(buffer)
       IN  /\ last.status = "ok"
           /\ \A i \in 0 .. w - 1 :
                 /\ calls[def.offset + i + 1].i = def.offset + i
                 /\ calls[def.offset + i + 1].v =
                       IF args.isLittleEndian = Bool(TRUE)
                       THEN last.value.n[i + 1]
                       ELSE last.value.n[w - i]

\* 0x01020304 was stored in a uint32 field as 04 03 02 01
C4_Witness ==
    /\ LastSetOn({"uint32"})
    /\ last.status = "ok"
    /\ args.isLittleEndian = Bool(TRUE)
    /\ last.value = Num(<<4, 3, 2, 1, 0>>)
    /\ \A i \in 0 .. 3 : buffer[defMap[last.name].offset + i] = 4 - i

(***************************************************************************)
(* C5: what the layout of a descriptor sequence is said to be.              *)
(***************************************************************************)
\* the value of a sequence of decimal digits
RECURSIVE DecimalValue(_)
DecimalValue(c) ==
    IF c = <<>> THEN 0 ELSE 10 * DecimalValue(SubSeq(c, 1, Len(c) - 1)) + c[Len(c)]

\* the declared count of a descriptor: the bracketed number, 1 without brackets
DeclaredCount(desc) == IF desc.count = <<>> THEN 1 ELSE DecimalValue(desc.count)

\* the per-unit byte size table: uint8=1, uint16=2, uint32=4, cstring=1
UnitSize(type) ==
    CASE type = "uint8" -> 1
      [] type = "uint16" -> 2
      [] type = "uint32" -> 4
      [] type = "cstring" -> 1

\* the sum of count x unit size over the first n descriptors
RECURSIVE DeclaredBytes(_, _)
DeclaredBytes(defs, n) ==
    IF n = 0 THEN 0
    ELSE DeclaredBytes(defs, n - 1) + DeclaredCount(defs[n]) * UnitSize(defs[n].type)

\* the descriptor an entry of the mapping comes from: the last of that name
LastIndexOf(defs, name) ==
    CHOOSE i \in 1 .. Len(defs) :
        /\ defs[i].name = name
        /\ \A j \in i + 1 .. Len(defs) : defs[j].name # name

\* C5: layout compilation. For every valid descriptor sequence the mapping
\* holds the declared names; each entry's length is its declared count (1
\* without a bracket suffix) and its offset the sum of count x unit size of
\* the descriptors before it; totalBytes is that sum over all descriptors;
\* the byte ranges of distinct entries do not overlap; and the five fields of
\* the example take 22 bytes.
C5_LayoutCompilation ==
    pc = "ready"
    => LET defs == args.defs
       IN  /\ DOMAIN defMap = {defs[i].name : i \in 1 .. Len(defs)}
           /\ \A name \in DOMAIN defMap :
                 LET i == LastIndexOf(defs, name)
                 IN  /\ defMap[name].type = defs[i].type
                     /\ defMap[name].length = DeclaredCount(defs[i])
                     /\ defMap[name].offset = DeclaredBytes(defs, i - 1)
           /\ totalBytes = DeclaredBytes(defs, Len(defs))
           /\ \A n, m \in DOMAIN defMap :
                 n # m => FieldRange(defMap[n]) \cap FieldRange(defMap[m]) = {}
           /\ defs = DocExample => totalBytes = 22

\* C6: unknown field. get(name) and set(name, x) with a name that is not in
\* the layout throw the Error whose message names the field, and leave the
\* buffer as it was.
C6_UnknownField ==
    [][(last'.op \in {"set", "get"} /\ last'.name \notin DOMAIN defMap')
       => (/\ last'.status = "Error"
           /\ last'.named = last'.name
           /\ buffer' = buffer)]_vars

\* C7 as stated: getLength() returns the compiled totalBytes, whether the
\* buffer was allocated or supplied.
C7_LengthIsTotalBytes ==
    last.op = "getLength" => last.result = Num(FromInt(totalBytes))

\* C7, amended: getLength() returns the byte length of the backing buffer,
\* which is totalBytes when the constructor allocated it and the length of the
\* caller's buffer when one was supplied, and no call changes it.
C7_LengthIsBufferLength ==
    LET len == IF args.buffer.given THEN byteLength(args.buffer.bytes) ELSE totalBytes
    IN  /\ pc = "ready" => getLength(buffer) = len
        /\ last.op = "getLength" => last.result = Num(FromInt(len))

\* getLength() was called on a record whose supplied buffer is not totalBytes
\* long, after a set
C7_Witness ==
    /\ last.op = "getLength"
    /\ args.buffer.given
    /\ byteLength(args.buffer.bytes) > totalBytes
    /\ \E i \in DOMAIN buffer : buffer[i] # args.buffer.bytes[i]

\* C8: render mode rejection, for a mode that is given and not empty (an
\* omitted or empty mode is replaced by "hex" before the table is consulted):
\* toString(mode) throws, and returns no text, for every mode other than "hex"
\* and "binary".
C8_RenderModeRejected ==
    (/\ last.op = "toString"
     /\ ToBoolean(last.value)
     /\ last.value \notin {Str(KeyHex), Str(KeyBinary)})
    => (last.status # "ok" /\ last.result = Undefined)

\* C9: frame of get and set. get changes no byte. set(name, v) changes no
\* byte outside the byte range of the field, so that get of every other field
\* returns what it returned before; on a cstring field set changes bytes only
\* at offset .. offset + min(|v|, capacity - 1).
C9_Frame ==
    [][/\ last'.op = "get" => buffer' = buffer
       /\ (last'.op = "set" /\ last'.name \in DOMAIN defMap)
          => LET def == defMap[last'.name]
             IN  /\ DOMAIN buffer' = DOMAIN buffer
                 /\ \A i \in DOMAIN buffer \ FieldRange(def) : buffer'[i] = buffer[i]
                 /\ \A other \in DOMAIN defMap \ {last'.name} :
                       get(buffer', defMap, LITTE_ENDIAN, other)
                          = get(buffer, defMap, LITTE_ENDIAN, other)
                 /\ (def.type = "cstring" /\ last'.value.t = "str")
                    => \A i \in DOMAIN buffer :
                          i \notin def.offset ..
                                     def.offset + Min(Len(last'.value.s), def.length - 1)
                          => buffer'[i] = buffer[i]
      ]_vars

\* a shorter string was set on a cstring field that is followed by a field
\* holding a value: a stale byte stays behind the terminator, the other field
\* keeps its bytes
C9_Witness ==
    /\ LastSetOn({"cstring"})
    /\ last.status = "ok"
    /\ last.value.t = "str"
    /\ LET def == defMap[last.name]
       IN  /\ \E i \in FieldRange(def) \cap DOMAIN buffer :
                i > def.offset + Len(last.value.s) /\ buffer[i] # 0
           /\ \E other \in DOMAIN defMap :
                /\ defMap[other].offset > def.offset
                /\ \E i \in FieldRange(defMap[other]) \cap DOMAIN buffer : buffer[i] # 0

\* what get of a cstring field is said to return: the bytes of the field
\* before its first zero byte, all of them when it holds none
CStringOf(buf, def) ==
    LET zeros == {i \in FieldRange(def) : buf[i] = 0}
        end == IF zeros = {} THEN def.offset + def.length
               ELSE CHOOSE i \in zeros : \A j \in zeros : i <= j
    IN  [k \in 1 .. end - def.offset |-> buf[def.offset + k - 1]]

\* C10: cstring get is bounded. get(name) on a cstring field at offset o of
\* capacity c reads no byte outside o .. o+c-1 and, when the field lies in the
\* buffer, returns the characters before the first zero byte of that range,
\* all c of them when the range holds no zero byte.
C10_CStringGetBounded ==
    LastGetOn({"cstring"})
    => LET def == defMap[last.name]
       IN  /\ last.reads \subseteq FieldRange(def)
           /\ FieldInBuffer(def)
              => /\ last.status = "ok"
                 /\ last.result = Str(CStringOf(buffer, def))
                 /\ Len(last.result.s) <= def.length

\* get returned all the bytes of a cstring field without a zero byte, in a
\* caller's buffer where more non-zero bytes follow the field
C10_Witness ==
    /\ LastGetOn({"cstring"})
    /\ last.status = "ok"
    /\ args.buffer.given
    /\ defMap[last.name].length > 1
    /\ Len(last.result.s) = defMap[last.name].length
    /\ \E i \in DOMAIN buffer :
          i > defMap[last.name].offset + defMap[last.name].length - 1 /\ buffer[i] # 0

====
